---------------------------- MODULE Spec2Model ----------------------------
(***************************************************************************)
(* A model of iodine's raw TCP/IP bridge (ext/iodine/iodine_tcp.c): the    *)
(* public operations listen, connect and attach_fd, the attach sequence     *)
(* iodine_tcp_attch_uuid, and the protocol callbacks that the facil.io      *)
(* reactor dispatches (on_data, on_ready, on_shutdown, on_close, ping).     *)
(*                                                                         *)
(* The reactor (facil.io), the socket layer, the handler registry           *)
(* (IodineStore) and iodine_connection_fire_event are not part of           *)
(* iodine_tcp.c; they are modelled by what the specification says of the    *)
(* primitive interface: events of one connection are dispatched one at a    *)
(* time, only while the protocol is attached and the socket is open.        *)
(***************************************************************************)
EXTENDS Integers, Sequences, FiniteSets, TLC

(***************************************************************************)
(* Program constants and the bounds of the model.                          *)
(***************************************************************************)
IODINE_MAX_READ == 8192

\* socket uuids are 1..MaxConns
MaxConns == 1
\* SpecShare follows the attach sequences of ShareConns sockets:
ShareConns == 2
\* Spec follows the whole life of a connection under the reactor, after
\* LifeCalls well-formed public calls:
LifeCalls == 1
MaxBursts == 1
MaxPings == 1
MaxDrains == 1
\* SpecApi follows MaxCalls public calls with all kinds of arguments:
MaxCalls == 2

(***************************************************************************)
(* Ruby values.  A VALUE is nil, false, true, a Fixnum, a String or an      *)
(* object; Absent marks a key a Hash does not hold.                         *)
(***************************************************************************)
Objects == {"h1", "h2", "proc"}

\* The objects that answer on_closed (rb_respond_to(handler, on_closed_id)).
RespondsToOnClosed == {"h1", "proc"}

Qnil == [t |-> "nil", n |-> 0, o |-> ""]
Qfalse == [t |-> "false", n |-> 0, o |-> ""]
Qtrue == [t |-> "true", n |-> 0, o |-> ""]
Absent == [t |-> "absent", n |-> 0, o |-> ""]
Fix(n) == [t |-> "fixnum", n |-> n, o |-> ""]
Str(n) == [t |-> "string", n |-> n, o |-> ""]
Obj(o) == [t |-> "object", n |-> 0, o |-> o]

\* The keys a caller may use, and the symbols the extension looks up.
Keys == {"port", "address", "handler", "timeout", "timout"}
port_id == "port"
address_id == "address"
handler_id == "handler"
timeout_id == "timout"

rb_hash_aref(args, key) == IF args[key] = Absent THEN Qnil ELSE args[key]

\* A slip: if (handler == Qnil)
NoHandler_NilOnly(v) == v = Qnil

\* handler == Qnil || handler == Qfalse || handler == Qtrue
NoHandler(v) == v = Qnil \/ v = Qfalse \/ v = Qtrue

\* Check_Type(v, T_x) passes
IsType(v, t) == v.t = t

\* NUM2USHORT: a Fixnum outside -32768..65535 raises RangeError, a negative
\* one wraps to 16 bits.
UShortInRange(n) == n >= -32768 /\ n <= 65535
NUM2USHORT(n) == n % 65536

\* A slip: uint16_t timeout = ...
ToUint8_Wide(n) == n

\* uint8_t timeout = ...
ToUint8(n) == n % 256

VARIABLES
    store,      \* IodineStore: object -> number of references held
    ncalls,     \* number of public calls made so far
    last,       \* the last public call: its arguments and its outcome
    ops,        \* the listening sockets and the connect operations
    conn,       \* per socket uuid: the socket, the protocol, the callbacks
    fds,        \* the caller's descriptors handed to attach_fd, still open?
    uaf,        \* a released iodine_protocol_s was read or written
    crashed     \* the process died

vars == <<store, ncalls, last, ops, conn, fds, uaf, crashed>>

\* the socket uuids of the run
ConnIds == DOMAIN conn


(***************************************************************************)
(* IodineStore: the handler registry, a reference count per object.        *)
(***************************************************************************)
\* A slip: the object is not added
StoreAdd_Forgotten(s, v) == s

StoreAdd(s, v) == IF v.t = "object" THEN [s EXCEPT ![v.o] = @ + 1] ELSE s
StoreRemove(s, v) == IF v.t = "object" THEN [s EXCEPT ![v.o] = @ - 1] ELSE s

(***************************************************************************)
(* State of one socket uuid.                                               *)
(*   st       "free" (not in use), "open", "closing" (sock_close was        *)
(*            called or the peer went away), "closed"                       *)
(*   p        the iodine_protocol_s: "none", "live" (malloc'ed), "freed"    *)
(*   on_ready p->p.on_ready is iodine_tcp_on_ready (FALSE: NULL)            *)
(*   attached facil_attach has handed the protocol to the reactor           *)
(*   fa       what facil_attach returned: 0, or -1 for an invalid uuid      *)
(*   armed    evio_add_write was called                                     *)
(*   apc      where the thread running iodine_tcp_attch_uuid stands         *)
(*   rpc      the callback a reactor thread is running for this uuid        *)
(*   rlen     buffer.len of the running iodine_tcp_on_data                  *)
(*   evData   a data-available event is pending                             *)
(*   forced   the calls of facil_force_event(uuid, FIO_EVENT_ON_DATA) so far *)
(*   avail/rd bytes waiting in the socket / bytes read so far               *)
(*   total    bytes that arrived on the socket so far                       *)
(*   closer   who closed the socket: "peer", "shutdown", or the callback     *)
(*            inside which the handler called close                         *)
(*   log      the handler callbacks fired, in order                         *)
(***************************************************************************)
FreeConn ==
    [st |-> "free", handler |-> "", origin |-> "", op |-> 0, p |-> "none",
     on_ready |-> FALSE, attached |-> FALSE, armed |-> FALSE,
     apc |-> "none", rpc |-> "idle", rlen |-> 0, evData |-> FALSE,
     forced |-> 0, fa |-> 0,
     avail |-> 0, rd |-> 0, total |-> 0, bursts |-> 0, pings |-> 0, drains |-> 0,
     shut |-> FALSE, closer |-> "", log |-> <<>>]

NoArgs == [k \in Keys |-> Absent]

NoCall ==
    [op |-> "none", hash |-> TRUE, args |-> NoArgs, block |-> FALSE,
     fd |-> Qnil, h |-> Qnil, err |-> "none", ret |-> Qnil, done |-> TRUE,
     tmo |-> 0, uuid |-> 0, called |-> FALSE, sys |-> 0]

Init ==
    /\ store = [o \in Objects |-> 0]
    /\ ncalls = 0
    /\ last = NoCall
    /\ ops = <<>>
    /\ conn = [c \in 1..MaxConns |-> FreeConn]
    /\ fds = {3}
    /\ uaf = FALSE
    /\ crashed = FALSE

FreeIds == {c \in ConnIds : conn[c].st = "free"}
HasFree == FreeIds # {}
NewUuid == CHOOSE c \in FreeIds : \A d \in FreeIds : c <= d

\* One fired callback: iodine_connection_fire_event(p->io, ev, ...), with the
\* state of the connection at that moment.
Event(c, ev, off, len) ==
    [ev |-> ev, off |-> off, len |-> len, p |-> conn[c].p, apc |-> conn[c].apc]

\* A slip: .on_ready = iodine_tcp_on_ready in the initializer
InitialOnReady_Set == TRUE

\* .on_ready = NULL /* set only after the on_open callback */
InitialOnReady == FALSE

(***************************************************************************)
(* iodine_tcp_attch_uuid, lines 356-381: the handler check, the allocation  *)
(* of the iodine_protocol_s (on_ready NULL) and facil_attach.  The rest of  *)
(* the function runs in later steps of the same thread (apc).               *)
(***************************************************************************)
\* facil_attach(uuid, &p->p): 0, or -1 when uuid is not a valid socket; the
\* reactor then knows nothing of the protocol.
facil_attach(valid) == IF valid THEN 0 ELSE -1

\* valid: uuid is a valid socket (st "invalid": it is not)
iodine_tcp_attch_uuid(cn, uuid, handler, origin, op, valid) ==
    IF NoHandler(handler)
    THEN [cn EXCEPT ![uuid] = [FreeConn EXCEPT !.st = "closed",
                                                !.origin = origin, !.op = op]]
    ELSE [cn EXCEPT ![uuid] = [FreeConn EXCEPT !.st = IF valid THEN "open"
                                                      ELSE "invalid",
                                                !.handler = handler.o,
                                                !.origin = origin, !.op = op,
                                                !.p = "live",
                                                !.on_ready = InitialOnReady,
                                                !.attached =
                                                    (facil_attach(valid) = 0),
                                                !.fa = facil_attach(valid),
                                                !.apc = "attached"]]

\* The record of a public call that raised.
Raised(op, a, blk, fd, h, err) ==
    [op |-> op, hash |-> a.hash, args |-> a.kv, block |-> blk, fd |-> fd,
     h |-> h, err |-> err, ret |-> Qnil, done |-> TRUE, tmo |-> 0,
     uuid |-> 0, called |-> FALSE, sys |-> 0]

\* The record of a public call that went through to the primitive interface.
Returned(op, a, blk, fd, h, ret, tmo, uuid, done) ==
    [op |-> op, hash |-> a.hash, args |-> a.kv, block |-> blk, fd |-> fd,
     h |-> h, err |-> "none", ret |-> ret, done |-> done, tmo |-> tmo,
     uuid |-> uuid, called |-> TRUE, sys |-> 0]

TypeOk(v, t) == v = Qnil \/ IsType(v, t)

\* dup(NUM2INT(fd)): a new descriptor, or -1.
dup(n, dupOk) == IF n \in fds /\ dupOk THEN n + 1 ELSE -1

\* A slip: if (other == 0)
DupFailed_Zero(other) == other = 0

\* if (other == -1)
DupFailed(other) == other = -1

\* facil_listen(...): the uuid of the listening socket, or -1.
facil_listen(bound) == IF bound THEN Len(ops) + 1 ELSE -1

\* A slip: if (facil_listen(...) == 0)
ListenFailed_Zero(r) == r = 0

\* if (facil_listen(...) == -1)
ListenFailed(r) == r = -1

\* A slip: if (rb_handler == Qnil)
ConnectNoHandler_NilOnly(rb_handler) == rb_handler = Qnil

\* if (rb_handler == Qnil || rb_handler == Qfalse || rb_handler == Qtrue)
\* in iodine_tcp_connect
ConnectNoHandler(rb_handler) == NoHandler(rb_handler)

(***************************************************************************)
(* Iodine.listen(args) { block }.  bound: facil_listen did not return -1.   *)
(***************************************************************************)
iodine_tcp_listen(a, blk, bound) ==
    LET rb_port == rb_hash_aref(a.kv, port_id)
        rb_address == rb_hash_aref(a.kv, address_id)
        given == rb_hash_aref(a.kv, handler_id)
        rb_handler == IF NoHandler(given) THEN Obj("proc") ELSE given
        call(err) == Raised("listen", a, blk, Qnil, Qnil, err)
        r == facil_listen(bound)
    IN
    /\ ~crashed
    /\ ncalls < MaxCalls
    /\ ncalls' = ncalls + 1
    /\ UNCHANGED <<conn, fds, uaf, crashed>>
    /\ IF ~a.hash
       THEN /\ last' = call("TypeError")
            /\ UNCHANGED <<store, ops>>
       ELSE IF NoHandler(given) /\ ~blk
       THEN /\ last' = call("LocalJumpError")
            /\ UNCHANGED <<store, ops>>
       ELSE IF ~TypeOk(rb_address, "string") \/ ~TypeOk(rb_port, "string")
       THEN /\ last' = call("TypeError")
            /\ store' = StoreAdd(store, rb_handler)
            /\ UNCHANGED ops
       ELSE /\ ops' = IF r = -1 THEN ops
                       ELSE Append(ops, [kind |-> "listen", st |-> "listening",
                                         udata |-> rb_handler.o, timeout |-> 0,
                                         on_closed |-> 0, client |-> Absent,
                                         accepted |-> 0])
            /\ IF ListenFailed(r)
               THEN /\ last' = [call("RuntimeError") EXCEPT !.called = TRUE,
                                                            !.sys = r]
                    /\ store' = StoreRemove(StoreAdd(store, rb_handler), rb_handler)
               ELSE /\ last' = [Returned("listen", a, blk, Qnil, Qnil, rb_handler,
                                         0, 0, TRUE) EXCEPT !.sys = r]
                    /\ store' = StoreAdd(store, rb_handler)

(***************************************************************************)
(* Iodine.connect(args).                                                    *)
(***************************************************************************)
iodine_tcp_connect(a) ==
    LET rb_port == rb_hash_aref(a.kv, port_id)
        rb_address == rb_hash_aref(a.kv, address_id)
        rb_handler == rb_hash_aref(a.kv, handler_id)
        rb_timeout == rb_hash_aref(a.kv, timeout_id)
        timeout == IF rb_timeout = Qnil THEN 0
                   ELSE ToUint8(NUM2USHORT(rb_timeout.n))
        call(err) == Raised("connect", a, FALSE, Qnil, Qnil, err)
    IN
    /\ ~crashed
    /\ ncalls < MaxCalls
    /\ ncalls' = ncalls + 1
    /\ UNCHANGED <<conn, fds, uaf, crashed>>
    /\ IF ~a.hash
       THEN /\ last' = call("TypeError")
            /\ UNCHANGED <<store, ops>>
       ELSE IF ConnectNoHandler(rb_handler)
       THEN /\ last' = call("ArgumentError")
            /\ UNCHANGED <<store, ops>>
       ELSE IF \/ ~TypeOk(rb_address, "string")
               \/ ~TypeOk(rb_port, "string")
               \/ ~TypeOk(rb_timeout, "fixnum")
       THEN /\ last' = call("TypeError")
            /\ store' = StoreAdd(store, rb_handler)
            /\ UNCHANGED ops
       ELSE IF rb_timeout # Qnil /\ ~UShortInRange(rb_timeout.n)
       THEN /\ last' = call("RangeError")
            /\ store' = StoreAdd(store, rb_handler)
            /\ UNCHANGED ops
       ELSE /\ last' = Returned("connect", a, FALSE, Qnil, Qnil, rb_handler,
                                timeout, 0, TRUE)
            /\ store' = StoreAdd(store, rb_handler)
            /\ ops' = Append(ops, [kind |-> "connect", st |-> "pending",
                                   udata |-> rb_handler.o, timeout |-> timeout,
                                   on_closed |-> 0, client |-> Absent,
                                   accepted |-> 0])

(***************************************************************************)
(* Iodine.attach_fd(fd, handler).  dupOk: dup() found a free descriptor     *)
(* slot; dup fails in any case when fd is not an open descriptor.  sockOk:  *)
(* sock_open(other) could wrap the descriptor and returned a valid uuid.    *)
(***************************************************************************)
iodine_tcp_attach_fd(fd, handler, dupOk, sockOk) ==
    LET a == [hash |-> TRUE, kv |-> NoArgs]
        call(err) == Raised("attach_fd", a, FALSE, fd, handler, err)
        other == dup(fd.n, dupOk)
        uuid == NewUuid
    IN
    /\ ~crashed
    /\ ncalls < MaxCalls
    /\ HasFree
    /\ ncalls' = ncalls + 1
    /\ UNCHANGED <<ops, fds, uaf, crashed>>
    /\ IF ~IsType(fd, "fixnum")
       THEN /\ last' = call("TypeError")
            /\ UNCHANGED <<store, conn>>
       ELSE IF NoHandler(handler)
       THEN /\ last' = call("ArgumentError")
            /\ UNCHANGED <<store, conn>>
       ELSE IF DupFailed(other)
       THEN /\ last' = [call("IOError") EXCEPT !.called = TRUE, !.sys = other]
            /\ store' = StoreAdd(store, handler)
            /\ UNCHANGED conn
       ELSE /\ last' = [Returned("attach_fd", a, FALSE, fd, handler, Qnil, 0,
                                 uuid, FALSE) EXCEPT !.sys = other]
            /\ store' = StoreAdd(store, handler)
            /\ conn' = iodine_tcp_attch_uuid(conn, uuid, handler, "attach_fd", 0,
                                             sockOk)


(***************************************************************************)
(* The callbacks facil.io runs for a listening socket and for a connect     *)
(* operation.                                                               *)
(***************************************************************************)
\* What IodineCaller.call(udata, call_id) may return: nil, false, the factory
\* itself (ChatHandler.call returns self) or another handler object.
FactoryResults(f) == {Qnil, Qfalse, Obj(f), Obj("h2")}

\* called when a connection opens (accepted by listening socket i)
iodine_tcp_on_open(i, handler) ==
    /\ ~crashed
    /\ i \in 1..Len(ops)
    /\ ops[i].kind = "listen" /\ ops[i].st = "listening"
    /\ HasFree
    /\ handler \in FactoryResults(ops[i].udata)
    /\ conn' = iodine_tcp_attch_uuid(conn, NewUuid, handler, "accept", i, TRUE)
    /\ store' = IF NoHandler(handler)
                THEN StoreRemove(StoreAdd(store, handler), handler)
                ELSE StoreAdd(store, handler)
    /\ ops' = [ops EXCEPT ![i].accepted = @ + 1]
    /\ UNCHANGED <<ncalls, last, fds, uaf, crashed>>

\* called when the listening socket is destroyed
iodine_tcp_on_finish(i) ==
    /\ ~crashed
    /\ i \in 1..Len(ops)
    /\ ops[i].kind = "listen" /\ ops[i].st = "listening"
    /\ ops' = [ops EXCEPT ![i].st = "finished"]
    /\ store' = StoreRemove(store, Obj(ops[i].udata))
    /\ UNCHANGED <<ncalls, last, conn, fds, uaf, crashed>>

\* the connection of connect operation i was established
iodine_tcp_on_connect(i) ==
    /\ ~crashed
    /\ i \in 1..Len(ops)
    /\ ops[i].kind = "connect" /\ ops[i].st = "pending"
    /\ HasFree
    /\ conn' = iodine_tcp_attch_uuid(conn, NewUuid, Obj(ops[i].udata), "connect",
                                     i, TRUE)
    /\ ops' = [ops EXCEPT ![i].st = "connected"]
    /\ UNCHANGED <<store, ncalls, last, fds, uaf, crashed>>

\* A slip: on_closed is called without asking rb_respond_to
OnFailCallsHandler_Always(handler) == TRUE

\* if (rb_respond_to(handler, on_closed_id))
OnFailCallsHandler(handler) == handler \in RespondsToOnClosed

\* connect operation i failed to connect
iodine_tcp_on_fail(i) ==
    /\ ~crashed
    /\ i \in 1..Len(ops)
    /\ ops[i].kind = "connect" /\ ops[i].st = "pending"
    /\ ops' = [ops EXCEPT ![i].st = "failed",
                          ![i].on_closed = IF OnFailCallsHandler(ops[i].udata)
                                           THEN @ + 1 ELSE @,
                          ![i].client = IF OnFailCallsHandler(ops[i].udata)
                                        THEN Qnil ELSE @]
    /\ store' = StoreRemove(store, Obj(ops[i].udata))
    /\ UNCHANGED <<ncalls, last, conn, fds, uaf, crashed>>


(***************************************************************************)
(* The event types handed to iodine_connection_fire_event.                  *)
(***************************************************************************)
IODINE_CONNECTION_ON_OPEN == "on_open"
IODINE_CONNECTION_ON_MESSAGE == "on_message"
IODINE_CONNECTION_ON_DRAINED == "on_drained"
IODINE_CONNECTION_ON_SHUTDOWN == "on_shutdown"
IODINE_CONNECTION_ON_CLOSE == "on_close"
IODINE_CONNECTION_PING == "ping"

\* Slips: a callback copied from another keeps the other's event type
OnShutdownEvent_FiresClose == IODINE_CONNECTION_ON_CLOSE
OnCloseEvent_FiresShutdown == IODINE_CONNECTION_ON_SHUTDOWN

\* The event each protocol callback fires.
OnDataEvent == IODINE_CONNECTION_ON_MESSAGE
OnReadyEvent == IODINE_CONNECTION_ON_DRAINED
OnShutdownEvent == IODINE_CONNECTION_ON_SHUTDOWN
OnCloseEvent == IODINE_CONNECTION_ON_CLOSE
PingEvent == IODINE_CONNECTION_PING

Fire(r, c, ev, off, len) == [r EXCEPT !.log = Append(@, Event(c, ev, off, len))]

\* sock_close(uuid), called by the handler inside a callback (client.close)
HandlerCloses(r, closes, where) ==
    IF closes /\ r.st = "open"
    THEN [r EXCEPT !.st = "closing", !.closer = where]
    ELSE r

(***************************************************************************)
(* iodine_tcp_attch_uuid, lines 382-384, and the epilogue of its caller.    *)
(* A read or write of a released iodine_protocol_s is undefined behaviour:  *)
(* the thread either goes on with what it finds there or the process dies.  *)
(***************************************************************************)
\* line 382: fire on_open (reads p->io)
attch_fire_on_open(c, survives) ==
    /\ ~crashed
    /\ conn[c].apc = "attached"
    /\ uaf' = (uaf \/ conn[c].p = "freed")
    /\ IF conn[c].p = "freed" /\ ~survives
       THEN crashed' = TRUE /\ UNCHANGED conn
       ELSE /\ conn' = [conn EXCEPT ![c] =
                 [Fire(@, c, IODINE_CONNECTION_ON_OPEN, 0, 0) EXCEPT !.apc = "in_open"]]
            /\ UNCHANGED crashed
    /\ UNCHANGED <<store, ncalls, last, ops, fds>>

\* the handler's on_open returns
attch_on_open_returns(c, closes) ==
    /\ ~crashed
    /\ conn[c].apc = "in_open"
    /\ conn' = [conn EXCEPT ![c] =
          [HandlerCloses(@, closes, "on_open") EXCEPT !.apc = "opened"]]
    /\ UNCHANGED <<store, ncalls, last, ops, fds, uaf, crashed>>

\* lines 383-384: p->p.on_ready = iodine_tcp_on_ready; evio_add_write(...);
\* then the caller's IodineStore.remove(handler) (lines 111, 129, 327) and,
\* in attach_fd, return handler.
attch_finish(c, survives) ==
    /\ ~crashed
    /\ conn[c].apc = "opened"
    /\ uaf' = (uaf \/ conn[c].p = "freed")
    /\ IF conn[c].p = "freed" /\ ~survives
       THEN crashed' = TRUE /\ UNCHANGED <<conn, store, last>>
       ELSE /\ conn' = [conn EXCEPT ![c].on_ready = (conn[c].p = "live"),
                                    ![c].armed = TRUE,
                                    ![c].apc = "done"]
            /\ store' = StoreRemove(store, Obj(conn[c].handler))
            /\ last' = IF last.op = "attach_fd" /\ last.uuid = c /\ ~last.done
                       THEN [last EXCEPT !.done = TRUE,
                                         !.ret = Obj(conn[c].handler)]
                       ELSE last
            /\ UNCHANGED crashed
    /\ UNCHANGED <<ncalls, ops, fds>>

(***************************************************************************)
(* The reactor.  It dispatches the events of one uuid one at a time, only   *)
(* while a protocol is attached and the socket is open; the close event     *)
(* waits for the running callback and detaches the protocol.                *)
(***************************************************************************)
Dispatchable(c) ==
    /\ ~crashed
    /\ conn[c].attached
    /\ conn[c].st = "open"
    /\ conn[c].rpc = "idle"

\* bytes arrive on the socket
BurstSizes == {2, IODINE_MAX_READ, IODINE_MAX_READ + 2, 2 * IODINE_MAX_READ}

data_arrives(c, n) ==
    /\ ~crashed
    /\ conn[c].st = "open"
    /\ conn[c].bursts < MaxBursts
    /\ conn' = [conn EXCEPT ![c].avail = @ + n, ![c].total = @ + n,
                            ![c].bursts = @ + 1, ![c].evData = TRUE]
    /\ UNCHANGED <<store, ncalls, last, ops, fds, uaf, crashed>>

\* the peer closes the connection, or the socket fails
peer_closes(c) ==
    /\ ~crashed
    /\ conn[c].attached
    /\ conn[c].st = "open"
    /\ conn' = [conn EXCEPT ![c].st = "closing", ![c].closer = "peer"]
    /\ UNCHANGED <<store, ncalls, last, ops, fds, uaf, crashed>>

Min(a, b) == IF a < b THEN a ELSE b

\* sock_read(uuid, buffer.buffer, IODINE_MAX_READ): what is there, up to the
\* maximum; with nothing to read, 0 (would block) or -1 (error).
sock_read(c, max, none) == IF conn[c].avail > 0 THEN Min(conn[c].avail, max) ELSE none

\* A slip: the buffer and the read grow to two chunks
ReadMax_TwoChunks == 2 * IODINE_MAX_READ

\* sock_read(uuid, buffer.buffer, IODINE_MAX_READ): the most one read takes
ReadMax == IODINE_MAX_READ

\* A slip: if (buffer.len < 0)
ReadFailed_NegativeOnly(len) == len < 0

\* if (buffer.len <= 0) return;
ReadFailed(len) == len <= 0

\* A slip: rb_str_new(b->buffer, IODINE_MAX_READ)
PayloadLen_WholeBuffer(len) == IODINE_MAX_READ

\* rb_str_new(b->buffer, b->len): the length of the payload of on_message
PayloadLen(len) == len

\* Slips: the event is forced after every read / after no read
ForcesEvent_Always(len) == TRUE
ForcesEvent_Never(len) == FALSE

\* if (buffer.len == IODINE_MAX_READ) facil_force_event(uuid, FIO_EVENT_ON_DATA)
ForcesEvent(len) == len = IODINE_MAX_READ

\* iodine_tcp_on_data up to the call of the handler's on_message
iodine_tcp_on_data(c, none) ==
    LET len == sock_read(c, ReadMax, none) IN
    /\ Dispatchable(c)
    /\ conn[c].evData
    /\ IF ReadFailed(len)
       THEN conn' = [conn EXCEPT ![c].evData = FALSE, ![c].rlen = len]
       ELSE conn' = [conn EXCEPT ![c] =
               [Fire(@, c, OnDataEvent, conn[c].rd, PayloadLen(len))
                   EXCEPT !.evData = FALSE, !.avail = @ - len, !.rd = @ + len,
                          !.rlen = len, !.rpc = "on_message"]]
    /\ UNCHANGED <<store, ncalls, last, ops, fds, uaf, crashed>>

\* on_message returns; iodine_tcp_on_data forces the next event and returns
iodine_tcp_on_data_returns(c, closes) ==
    /\ ~crashed
    /\ conn[c].rpc = "on_message"
    /\ conn' = [conn EXCEPT ![c] =
          [HandlerCloses(@, closes, "on_message")
              EXCEPT !.rpc = "idle",
                     !.evData = IF ForcesEvent(conn[c].rlen) THEN TRUE ELSE @,
                     !.forced = IF ForcesEvent(conn[c].rlen) THEN @ + 1 ELSE @]]
    /\ UNCHANGED <<store, ncalls, last, ops, fds, uaf, crashed>>

\* the socket is ready to be written to: the reactor calls p->on_ready
iodine_tcp_on_ready(c) ==
    /\ Dispatchable(c)
    /\ conn[c].drains < MaxDrains
    /\ conn' = [conn EXCEPT ![c] =
          IF conn[c].on_ready
          THEN [Fire(@, c, OnReadyEvent, 0, 0)
                   EXCEPT !.drains = @ + 1, !.rpc = "on_drained"]
          ELSE [@ EXCEPT !.drains = @ + 1]]
    /\ UNCHANGED <<store, ncalls, last, ops, fds, uaf, crashed>>

\* the connection's timeout was reached
iodine_tcp_ping(c) ==
    /\ Dispatchable(c)
    /\ conn[c].pings < MaxPings
    /\ conn' = [conn EXCEPT ![c] =
          [Fire(@, c, PingEvent, 0, 0) EXCEPT !.pings = @ + 1, !.rpc = "ping"]]
    /\ UNCHANGED <<store, ncalls, last, ops, fds, uaf, crashed>>

\* the server is shutting down
iodine_tcp_on_shutdown(c) ==
    /\ Dispatchable(c)
    /\ ~conn[c].shut
    /\ conn' = [conn EXCEPT ![c] =
          [Fire(@, c, OnShutdownEvent, 0, 0)
              EXCEPT !.shut = TRUE, !.rpc = "on_shutdown"]]
    /\ UNCHANGED <<store, ncalls, last, ops, fds, uaf, crashed>>

\* on_drained, ping or on_shutdown returns; after on_shutdown the reactor
\* closes the socket
callback_returns(c, closes) ==
    /\ ~crashed
    /\ conn[c].rpc \in {"on_drained", "ping", "on_shutdown"}
    /\ conn' = [conn EXCEPT ![c] =
          [(IF conn[c].rpc = "on_shutdown" /\ conn[c].st = "open" /\ ~closes
            THEN [@ EXCEPT !.st = "closing", !.closer = "shutdown"]
            ELSE HandlerCloses(@, closes, conn[c].rpc))
              EXCEPT !.rpc = "idle"]]
    /\ UNCHANGED <<store, ncalls, last, ops, fds, uaf, crashed>>

\* iodine_tcp_on_close up to the call of the handler's on_close
iodine_tcp_on_close(c) ==
    /\ ~crashed
    /\ conn[c].attached
    /\ conn[c].st = "closing"
    /\ conn[c].rpc = "idle"
    /\ conn' = [conn EXCEPT ![c] =
          [Fire(@, c, OnCloseEvent, 0, 0)
              EXCEPT !.attached = FALSE, !.rpc = "on_close"]]
    /\ UNCHANGED <<store, ncalls, last, ops, fds, uaf, crashed>>

\* on_close returns: free(p)
iodine_tcp_on_close_returns(c) ==
    /\ ~crashed
    /\ conn[c].rpc = "on_close"
    /\ conn' = [conn EXCEPT ![c].p = "freed", ![c].rpc = "idle",
                            ![c].st = "closed"]
    /\ UNCHANGED <<store, ncalls, last, ops, fds, uaf, crashed>>


(***************************************************************************)
(* The arguments callers pass.                                              *)
(***************************************************************************)
Hash(h, port, address, timeout, timout) ==
    [hash |-> TRUE,
     kv |-> [k \in Keys |-> CASE k = "handler" -> h
                              [] k = "port" -> port
                              [] k = "address" -> address
                              [] k = "timeout" -> timeout
                              [] OTHER -> timout]]

NotAHash == [hash |-> FALSE, kv |-> NoArgs]

HandlerArgs == {Absent, Qnil, Qfalse, Qtrue, Obj("h1"), Obj("h2")}
PortArgs == {Absent, Str(3000), Fix(3000)}
AddressArgs == {Absent, Str(1), Qtrue}
TimeoutArgs == {Absent, Fix(0), Fix(5), Fix(255), Fix(256), Fix(300),
                Fix(65535), Fix(65536), Fix(-1), Str(5)}

ListenArgs ==
    {NotAHash} \cup
    {Hash(h, p, a, Absent, Absent) :
        h \in {Absent, Qtrue, Obj("h1")}, p \in PortArgs, a \in {Absent, Qtrue}}

ConnectArgs ==
    {NotAHash} \cup
    {Hash(h, Absent, Absent, t, Absent) :
        h \in HandlerArgs, t \in {Absent, Fix(5)}} \cup
    {Hash(Obj("h1"), Absent, Absent, t, m) :
        t \in {Absent, Fix(5)}, m \in TimeoutArgs} \cup
    {Hash(Obj(h), p, a, Absent, Absent) :
        h \in {"h1", "h2"}, p \in PortArgs, a \in AddressArgs}

FdArgs == {Fix(3), Fix(9), Qnil}

(***************************************************************************)
(* Spec: few, well-formed calls; every event of the reactor.                *)
(***************************************************************************)
LifeCall ==
    /\ ncalls < LifeCalls
    /\ \/ \E bound \in BOOLEAN :
             iodine_tcp_listen(Hash(Obj("h1"), Str(3000), Absent, Absent, Absent),
                               FALSE, bound)
       \/ iodine_tcp_connect(Hash(Obj("h1"), Str(3000), Absent, Absent, Absent))
       \/ \E dupOk \in BOOLEAN :
             iodine_tcp_attach_fd(Fix(3), Obj("h1"), dupOk, TRUE)

LifeOpen ==
    \/ \E i \in 1..LifeCalls, h \in {Qnil, Obj("h1")} :
          iodine_tcp_on_open(i, h)
    \/ \E i \in 1..LifeCalls : iodine_tcp_on_finish(i)
    \/ \E i \in 1..LifeCalls : iodine_tcp_on_connect(i)
    \/ \E i \in 1..LifeCalls : iodine_tcp_on_fail(i)

Attach ==
    \/ \E c \in ConnIds, survives \in BOOLEAN : attch_fire_on_open(c, survives)
    \/ \E c \in ConnIds, closes \in BOOLEAN : attch_on_open_returns(c, closes)
    \/ \E c \in ConnIds, survives \in BOOLEAN : attch_finish(c, survives)

Close ==
    \/ \E c \in ConnIds : peer_closes(c)
    \/ \E c \in ConnIds : iodine_tcp_on_close(c)
    \/ \E c \in ConnIds : iodine_tcp_on_close_returns(c)

Traffic ==
    \/ \E c \in ConnIds, n \in BurstSizes : data_arrives(c, n)
    \/ \E c \in ConnIds, none \in {0, -1} : iodine_tcp_on_data(c, none)
    \/ \E c \in ConnIds, closes \in BOOLEAN : iodine_tcp_on_data_returns(c, closes)
    \/ \E c \in ConnIds : iodine_tcp_on_ready(c)
    \/ \E c \in ConnIds : iodine_tcp_ping(c)
    \/ \E c \in ConnIds : iodine_tcp_on_shutdown(c)
    \/ \E c \in ConnIds, closes \in BOOLEAN : callback_returns(c, closes)

Next == LifeCall \/ LifeOpen \/ Attach \/ Close \/ Traffic

Spec == Init /\ [][Next]_vars

(***************************************************************************)
(* SpecLive: Spec, with a reactor that runs a pending data-available event  *)
(* of a connection it can dispatch and the close event of a closed socket,  *)
(* an attaching thread that goes on, and handlers whose callbacks return.   *)
(***************************************************************************)
Fairness ==
    \A c \in 1..MaxConns :
        /\ WF_vars(\E none \in {0, -1} : iodine_tcp_on_data(c, none))
        /\ WF_vars(\E closes \in BOOLEAN : iodine_tcp_on_data_returns(c, closes))
        /\ WF_vars(\E closes \in BOOLEAN : callback_returns(c, closes))
        /\ WF_vars(iodine_tcp_on_close(c))
        /\ WF_vars(iodine_tcp_on_close_returns(c))
        /\ WF_vars(\E survives \in BOOLEAN : attch_fire_on_open(c, survives))
        /\ WF_vars(\E closes \in BOOLEAN : attch_on_open_returns(c, closes))
        /\ WF_vars(\E survives \in BOOLEAN : attch_finish(c, survives))

SpecLive == Init /\ [][Next]_vars /\ Fairness

(***************************************************************************)
(* SpecApi: the public calls with every kind of argument, the outcome of    *)
(* each listen and connect, the attach sequence and the close.              *)
(***************************************************************************)
ApiCall ==
    \/ \E a \in ListenArgs, blk \in BOOLEAN, bound \in BOOLEAN :
          iodine_tcp_listen(a, blk, bound)
    \/ \E a \in ConnectArgs : iodine_tcp_connect(a)
    \/ \E fd \in FdArgs, h \in {Qnil, Obj("h1"), Obj("h2")},
          dupOk \in BOOLEAN, sockOk \in BOOLEAN :
          iodine_tcp_attach_fd(fd, h, dupOk, sockOk)

ApiOpen ==
    \/ \E i \in 1..MaxCalls, h \in {Qnil, Qfalse} \cup {Obj(o) : o \in Objects} :
          iodine_tcp_on_open(i, h)
    \/ \E i \in 1..MaxCalls : iodine_tcp_on_finish(i)
    \/ \E i \in 1..MaxCalls : iodine_tcp_on_connect(i)
    \/ \E i \in 1..MaxCalls : iodine_tcp_on_fail(i)

NextApi == ApiCall \/ ApiOpen \/ Attach \/ Close

SpecApi == Init /\ [][NextApi]_vars

(***************************************************************************)
(* SpecShare: well-formed calls with one handler object, several sockets,   *)
(* the attach sequence and the close of each.                               *)
(***************************************************************************)
InitShare ==
    /\ store = [o \in Objects |-> 0]
    /\ ncalls = 0
    /\ last = NoCall
    /\ ops = <<>>
    /\ conn = [c \in 1..ShareConns |-> FreeConn]
    /\ fds = {3}
    /\ uaf = FALSE
    /\ crashed = FALSE

ShareCall ==
    \/ iodine_tcp_listen(Hash(Obj("h1"), Str(3000), Absent, Absent, Absent),
                         FALSE, TRUE)
    \/ iodine_tcp_connect(Hash(Obj("h1"), Str(3000), Absent, Absent, Absent))
    \/ iodine_tcp_attach_fd(Fix(3), Obj("h1"), TRUE, TRUE)

ShareOpen ==
    \/ \E i \in 1..MaxCalls, h \in {Obj("h1"), Obj("h2")} :
          iodine_tcp_on_open(i, h)
    \/ \E i \in 1..MaxCalls : iodine_tcp_on_finish(i)
    \/ \E i \in 1..MaxCalls : iodine_tcp_on_connect(i)
    \/ \E i \in 1..MaxCalls : iodine_tcp_on_fail(i)

NextShare == ShareCall \/ ShareOpen \/ Attach \/ Close

SpecShare == InitShare /\ [][NextShare]_vars


(***************************************************************************)
(* Histories.                                                               *)
(***************************************************************************)
Log(c) == conn[c].log
Positions(c, ev) == {i \in 1..Len(Log(c)) : Log(c)[i].ev = ev}
Count(c, ev) == Cardinality(Positions(c, ev))
IsMessage(e) == e.ev = "on_message"
Messages(c) == SelectSeq(Log(c), IsMessage)

\* The callbacks of connection c that are executing now.
Running(c) ==
    (IF conn[c].apc = "in_open" THEN {"on_open"} ELSE {}) \cup
    (IF conn[c].rpc # "idle" THEN {conn[c].rpc} ELSE {})

\* The value the caller gave under a key.
Given(key) == rb_hash_aref(last.args, key)

\* This step is a public call of op.
Calls(op) == ncalls' = ncalls + 1 /\ last'.op = op

(***************************************************************************)
(* C1: on_open is fired before any on_message, on_drained or ping of the    *)
(* same connection.                                                         *)
(***************************************************************************)
C1_OnOpenFirst ==
    \A c \in ConnIds : \A i \in 1..Len(Log(c)) :
        Log(c)[i].ev \in {"on_message", "on_drained", "ping"}
            => \E j \in 1..(i - 1) : Log(c)[j].ev = "on_open"

C3_NoOverlap == \A c \in ConnIds : Cardinality(Running(c)) <= 1

(***************************************************************************)
(* C4: the payloads of the on_message calls of a connection, in call order, *)
(* are consecutive pieces of the received bytes starting at the first byte, *)
(* each of 1 to IODINE_MAX_READ bytes; together they are exactly the bytes  *)
(* read, and the bytes read and the bytes still waiting are the bytes       *)
(* received.                                                                *)
(***************************************************************************)
C4_PayloadsAreTheStream ==
    \A c \in ConnIds :
        LET m == Messages(c)
            delivered == IF m = <<>> THEN 0 ELSE m[Len(m)].off + m[Len(m)].len
        IN /\ \A k \in 1..Len(m) :
                 /\ m[k].len >= 1
                 /\ m[k].len <= IODINE_MAX_READ
                 /\ m[k].off = IF k = 1 THEN 0 ELSE m[k - 1].off + m[k - 1].len
           /\ delivered = conn[c].rd
           /\ conn[c].rd + conn[c].avail = conn[c].total

\* More than one chunk was received and all of it was delivered.
C4_Witness ==
    \E c \in ConnIds :
        /\ conn[c].total > IODINE_MAX_READ
        /\ conn[c].avail = 0
        /\ Len(Messages(c)) = 2
        /\ Messages(c)[2].len < IODINE_MAX_READ

(***************************************************************************)
(* C5: on_shutdown is fired at most once, only while the Connection State   *)
(* exists, and before the connection's on_close.                            *)
(***************************************************************************)
C5_ShutdownOnceBeforeClose ==
    \A c \in ConnIds :
        /\ Count(c, "on_shutdown") <= 1
        /\ \A i \in Positions(c, "on_shutdown") :
              /\ Log(c)[i].p = "live"
              /\ \A j \in Positions(c, "on_close") : i < j

C5_Witness ==
    \E c \in ConnIds :
        /\ Count(c, "on_shutdown") = 1
        /\ Count(c, "on_close") = 1
        /\ conn[c].p = "freed"

C8_AttachFdDupFails ==
    [][(Calls("attach_fd") /\ last'.sys = -1)
        => /\ last'.err = "IOError"
           /\ UNCHANGED <<conn, fds, ops>>]_vars

C8_Witness ==
    /\ last.op = "attach_fd"
    /\ last.fd = Fix(9)
    /\ last.sys = -1
    /\ last.err = "IOError"

(***************************************************************************)
(* C9: listen whose facil_listen fails raises the listen error to the       *)
(* caller; no listening socket exists for the call and the handler is not   *)
(* returned.                                                                *)
(***************************************************************************)
C9_ListenBindFails ==
    [][(Calls("listen") /\ last'.sys = -1)
        => /\ last'.err = "RuntimeError"
           /\ last'.ret = Qnil
           /\ UNCHANGED <<ops, conn>>]_vars

C9_Witness ==
    /\ last.op = "listen"
    /\ last.sys = -1
    /\ last.err = "RuntimeError"

(***************************************************************************)
(* C10: the timeout handed to facil_connect is the Fixnum the caller gave   *)
(* under the key timeout, and 0 when the caller gave none.                  *)
(***************************************************************************)
C10_TimeoutHandedOver ==
    (last.op = "connect" /\ last.called /\ TypeOk(Given("timeout"), "fixnum"))
        => last.tmo = IF Given("timeout") = Qnil THEN 0 ELSE Given("timeout").n

\* The operations whose outcome is not resolved yet and that hold object o:
\* listening sockets, pending connects, attach sequences under way.
Held(o) ==
    Cardinality({i \in 1..Len(ops) :
                    ops[i].udata = o /\ ops[i].st \in {"listening", "pending"}})
    + Cardinality({c \in ConnIds :
                    conn[c].handler = o
                    /\ conn[c].apc \in {"attached", "in_open", "opened"}})

(***************************************************************************)
(* C11: the registry holds, for every object, exactly one entry per         *)
(* operation on it whose outcome is not resolved yet: every entry added is  *)
(* released once at the outcome, the count never goes below zero and no     *)
(* entry is left behind by an operation that failed.                        *)
(***************************************************************************)
C11_EntriesReleased ==
    \A o \in Objects : store[o] >= 0 /\ store[o] = Held(o)

(***************************************************************************)
(* C12: no two Connection States that exist at the same time refer to the   *)
(* same handler object.                                                     *)
(***************************************************************************)
C12_OneOwner ==
    \A c \in ConnIds : \A d \in ConnIds :
        (c # d /\ conn[c].p = "live" /\ conn[d].p = "live")
            => conn[c].handler # conn[d].handler

(***************************************************************************)
(* C13: a socket attached with an absent handler (nil, false or true) is    *)
(* closed at once: no iodine_protocol_s is allocated, nothing is attached   *)
(* to the reactor, no callback is fired, write-readiness is not armed, and  *)
(* the step raises nothing and does not end the process.                    *)
(***************************************************************************)
C13_AbsentHandler ==
    [][\A c \in ConnIds :
          (conn'[c].st # "free" /\ conn'[c].handler = "")
              => /\ conn'[c].st = "closed"
                 /\ conn'[c].p = "none"
                 /\ ~conn'[c].attached
                 /\ ~conn'[c].armed
                 /\ ~conn'[c].on_ready
                 /\ conn'[c].apc = "none"
                 /\ conn'[c].rpc = "idle"
                 /\ conn'[c].log = <<>>
                 /\ conn[c].st = "free" => (last' = last /\ ~crashed')]_vars

\* A listener's factory returned nil or false for an accepted connection.
C13_Witness ==
    \E c \in ConnIds :
        /\ conn[c].origin = "accept"
        /\ conn[c].handler = ""
        /\ conn[c].st = "closed"
        /\ ops[conn[c].op].accepted = 1

(***************************************************************************)
(* C14: of one message of exactly two chunks (2 * IODINE_MAX_READ bytes,    *)
(* all of it readable), the handler gets at most two on_message calls, the  *)
(* k-th with the k-th chunk of IODINE_MAX_READ bytes; once all bytes were   *)
(* read there are exactly two, and the event forced after the second chunk  *)
(* adds no third.                                                           *)
(***************************************************************************)
C14_TwoChunks ==
    \A c \in ConnIds :
        (conn[c].bursts = 1 /\ conn[c].total = 2 * IODINE_MAX_READ)
            => LET m == Messages(c) IN
               /\ Len(m) <= 2
               /\ \A k \in 1..Len(m) :
                     /\ m[k].off = (k - 1) * IODINE_MAX_READ
                     /\ m[k].len = IODINE_MAX_READ
               /\ conn[c].rd = conn[c].total => Len(m) = 2
               /\ conn[c].forced <= 2

\* Both chunks were delivered, the event was forced twice, and the second
\* forced event has run: its read found nothing and the connection is idle.
C14_Witness ==
    \E c \in ConnIds :
        /\ conn[c].bursts = 1 /\ conn[c].total = 2 * IODINE_MAX_READ
        /\ Len(Messages(c)) = 2
        /\ conn[c].forced = 2
        /\ ~conn[c].evData
        /\ conn[c].rlen <= 0
        /\ conn[c].rpc = "idle"
        /\ conn[c].st = "open"

\* The connections accepted by listening socket i.
AcceptedBy(i) == {c \in ConnIds : conn[c].origin = "accept" /\ conn[c].op = i}

(***************************************************************************)
(* C15: the handler-factory of a listening socket is held by the registry   *)
(* as long as the socket listens; the step that destroys the socket         *)
(* releases one entry of it, and a destroyed socket is never destroyed      *)
(* again; the factory was called once for each connection the socket        *)
(* accepted.                                                                *)
(***************************************************************************)
C15_FactoryRetained ==
    [][\A i \in 1..Len(ops) :
          ops[i].kind = "listen"
              => /\ ops[i].st = "listening" => store[ops[i].udata] >= 1
                 /\ (ops[i].st = "listening" /\ ops'[i].st # "listening")
                       => /\ ops'[i].st = "finished"
                          /\ store'[ops[i].udata] = store[ops[i].udata] - 1
                 /\ ops[i].st = "finished" => ops'[i] = ops[i]
                 /\ ops[i].accepted = Cardinality(AcceptedBy(i))]_vars

\* A listening socket accepted a connection whose handler is the factory
\* itself, the attach completed, and the socket was destroyed.
C15_Witness ==
    \E i \in 1..Len(ops) : \E c \in AcceptedBy(i) :
        /\ ops[i].kind = "listen" /\ ops[i].st = "finished"
        /\ ops[i].accepted = 1
        /\ conn[c].handler = ops[i].udata
        /\ conn[c].apc = "done"
        /\ store[ops[i].udata] = 0

(***************************************************************************)
(* C16: from the allocation of the Connection State until on_open has       *)
(* returned, the write-ready callback is not set and write-readiness is not *)
(* armed; on_open is fired in that period, and every on_drained of the      *)
(* connection is fired after its on_open has returned.                      *)
(***************************************************************************)
C16_OnReadyAfterOnOpen ==
    \A c \in ConnIds :
        /\ conn[c].apc \in {"attached", "in_open", "opened"}
              => ~conn[c].on_ready /\ ~conn[c].armed
        /\ \A i \in Positions(c, "on_open") : Log(c)[i].apc = "attached"
        /\ \A i \in Positions(c, "on_drained") :
              /\ Log(c)[i].apc = "done"
              /\ \E j \in 1..(i - 1) : Log(c)[j].ev = "on_open"

\* on_drained was fired for a connection, after its on_open.
C16_Witness ==
    \E c \in ConnIds :
        /\ conn[c].on_ready /\ conn[c].armed
        /\ Count(c, "on_open") = 1
        /\ Count(c, "on_drained") = 1

(***************************************************************************)
(* C17: the iodine_protocol_s of a connection is released only after its    *)
(* on_close callback has returned, once, and no thread reads or writes it   *)
(* after it was released.                                                   *)
(***************************************************************************)
C17_NoUseAfterRelease ==
    /\ ~uaf
    /\ \A c \in ConnIds :
          conn[c].p = "freed"
              => /\ Count(c, "on_close") = 1
                 /\ conn[c].rpc # "on_close"

(***************************************************************************)
(* C18: a data-available event reads the socket once, at most              *)
(* IODINE_MAX_READ bytes, and fires on_message once if it read something    *)
(* and not at all otherwise, without forcing an event yet; when on_message  *)
(* returns, the event is forced once if the read took exactly               *)
(* IODINE_MAX_READ bytes and not otherwise, and nothing is read; no other   *)
(* step reads the socket or forces an event.                                *)
(***************************************************************************)
C18_OneReadPerEvent ==
    [][\A c \in ConnIds :
          LET took == conn'[c].rd - conn[c].rd IN
          IF conn[c].evData /\ ~conn'[c].evData
          THEN /\ took >= 0 /\ took <= IODINE_MAX_READ
               /\ conn'[c].avail = conn[c].avail - took
               /\ conn'[c].forced = conn[c].forced
               /\ IF took > 0
                  THEN /\ conn'[c].rpc = "on_message"
                       /\ Len(conn'[c].log) = Len(conn[c].log) + 1
                       /\ conn'[c].log[Len(conn'[c].log)].ev = "on_message"
                  ELSE /\ conn'[c].rpc = "idle"
                       /\ conn'[c].log = conn[c].log
          ELSE /\ took = 0
               /\ IF conn[c].rpc = "on_message" /\ conn'[c].rpc # "on_message"
                  THEN /\ conn'[c].log = conn[c].log
                       /\ conn'[c].forced =
                             conn[c].forced
                             + (IF conn[c].rlen = IODINE_MAX_READ THEN 1 ELSE 0)
                  ELSE conn'[c].forced = conn[c].forced]_vars

\* A read of a full chunk forced an event; the forced event read the two
\* bytes that were left and forced nothing.
C18_Witness ==
    \E c \in ConnIds :
        /\ conn[c].total = IODINE_MAX_READ + 2
        /\ conn[c].rd = conn[c].total
        /\ conn[c].forced = 1
        /\ conn[c].rlen = 2
        /\ conn[c].rpc = "idle"

(***************************************************************************)
(* C19: a data-available event whose read returns 0 or a negative value     *)
(* fires no callback, runs nothing of the handler, forces no event, does    *)
(* not close the socket, and leaves the Connection State, the registry and  *)
(* everything else but the consumed event as they were.                     *)
(***************************************************************************)
C19_FailedReadDoesNothing ==
    [][\A c \in ConnIds :
          (conn[c].evData /\ ~conn'[c].evData /\ conn[c].avail = 0)
              => /\ conn'[c].rlen <= 0
                 /\ conn'[c] = [conn[c] EXCEPT !.evData = FALSE,
                                               !.rlen = conn'[c].rlen]
                 /\ UNCHANGED <<store, ops, last, fds, uaf, crashed>>]_vars

\* After a full chunk was delivered, the forced event's read failed with -1
\* and the connection is open and idle as before.
C19_Witness ==
    \E c \in ConnIds :
        /\ conn[c].rlen = -1
        /\ ~conn[c].evData
        /\ conn[c].forced = 1
        /\ Len(Messages(c)) = 1
        /\ conn[c].st = "open" /\ conn[c].rpc = "idle" /\ conn[c].p = "live"

\* Every byte that arrived for connection c was handed to on_message and no
\* data-available event is pending or running.
Drained(c) ==
    LET m == Messages(c) IN
    /\ conn[c].rd = conn[c].total
    /\ conn[c].avail = 0
    /\ (IF m = <<>> THEN 0 ELSE m[Len(m)].off + m[Len(m)].len) = conn[c].total
    /\ ~conn[c].evData
    /\ conn[c].rpc # "on_message"

(***************************************************************************)
(* C20: an open connection eventually has had every byte that arrived       *)
(* delivered by on_message, with no data-available event pending.           *)
(***************************************************************************)
C20_AllBytesDelivered ==
    \A c \in 1..MaxConns : (conn[c].st = "open") ~> Drained(c)

(***************************************************************************)
(* C20, amended: an open connection eventually has had every byte that      *)
(* arrived delivered by on_message with no data-available event pending,    *)
(* unless it is closed (or the process has ended) before.                   *)
(***************************************************************************)
C20_ReadLoopEnds ==
    \A c \in 1..MaxConns :
        (conn[c].st = "open")
            ~> (Drained(c) \/ conn[c].st # "open" \/ crashed)

\* Exactly one chunk arrived and was delivered; the event forced after it
\* ran and found nothing; the connection stays open.
C20_Witness ==
    \E c \in ConnIds :
        /\ conn[c].total = IODINE_MAX_READ
        /\ Drained(c)
        /\ conn[c].forced = 1
        /\ conn[c].st = "open"

(***************************************************************************)
(* C21: on_open is fired, and write-readiness armed, only for a socket      *)
(* whose protocol facil_attach has attached: when facil_attach failed,      *)
(* neither happens.                                                         *)
(***************************************************************************)
C21_OnOpenOnlyIfAttached ==
    \A c \in ConnIds :
        conn[c].fa = -1 => (Count(c, "on_open") = 0 /\ ~conn[c].armed)

\* The value connect read for the timeout (under the key it looks up).
ReadTimeout == rb_hash_aref(last.args, timeout_id)

(***************************************************************************)
(* C22: when connect read a Fixnum timeout t with 0 <= t <= 65535, the      *)
(* call went through to facil_connect without an error and handed it        *)
(* t mod 256: t itself for t up to 255, a wrapped value from 256 up.        *)
(***************************************************************************)
C22_TimeoutNarrowed ==
    (/\ last.op = "connect"
     /\ last.hash
     /\ ~NoHandler(Given("handler"))
     /\ TypeOk(Given("port"), "string") /\ TypeOk(Given("address"), "string")
     /\ IsType(ReadTimeout, "fixnum")
     /\ ReadTimeout.n >= 0 /\ ReadTimeout.n <= 65535)
        => /\ last.err = "none"
           /\ last.called
           /\ last.tmo = ReadTimeout.n % 256
           /\ ReadTimeout.n <= 255 => last.tmo = ReadTimeout.n

\* connect read the timeout 300 and handed 44 to facil_connect.
C22_Witness ==
    /\ last.op = "connect"
    /\ last.called
    /\ ReadTimeout = Fix(300)
    /\ last.tmo = 44

=============================================================================
